---- MODULE Spec2Model ----
(***************************************************************************)
(* Model of swagger-mcp's entry point (src/main.go): the command-line      *)
(* flags are validated stage by stage, the transport addresses are         *)
(* resolved, the Swagger document is loaded and the server is created.     *)
(* Go strings are TLA+ strings; the string helpers below compute on them   *)
(* character by character with Len, SubSeq and \o.                         *)
(***************************************************************************)
EXTENDS Naturals, Sequences, FiniteSets, TLC

-----------------------------------------------------------------------------
(* Go's strings package, as used by main.go *)

\* the i-th byte of s, as a one-character string
CharAt(s, i) == SubSeq(s, i, i)

\* s[i:] with a 1-based first position
From(s, i) == SubSeq(s, i, Len(s))

\* strings.HasPrefix
HasPrefix(s, p) == Len(s) >= Len(p) /\ SubSeq(s, 1, Len(p)) = p

\* the positions at which sub occurs in s
Occurrences(s, sub) ==
    {i \in 1..Len(s) : i + Len(sub) - 1 <= Len(s) /\ SubSeq(s, i, i + Len(sub) - 1) = sub}

\* strings.Contains
Contains(s, sub) == Occurrences(s, sub) # {}

\* strings.Index, 1-based, 0 when sub does not occur
Index(s, sub) ==
    IF Occurrences(s, sub) = {} THEN 0
    ELSE CHOOSE i \in Occurrences(s, sub) : \A j \in Occurrences(s, sub) : i <= j

\* strings.LastIndex, 1-based, 0 when sub does not occur
LastIndex(s, sub) ==
    IF Occurrences(s, sub) = {} THEN 0
    ELSE CHOOSE i \in Occurrences(s, sub) : \A j \in Occurrences(s, sub) : j <= i

\* strings.Split(s, sep)[0]: the text before the first separator
SplitPart0(s, sep) == IF Index(s, sep) = 0 THEN s ELSE SubSeq(s, 1, Index(s, sep) - 1)

\* strings.Split(s, sep)[1], for an s that contains sep: the text between the
\* first separator and the second one (or the end)
SplitPart1(s, sep) == SplitPart0(From(s, Index(s, sep) + Len(sep)), sep)

-----------------------------------------------------------------------------
(* Go's net/url, as called by main.go.  The inputs of the model hold no    *)
(* '#', '?', '@', '%' and no control character, so fragment, query,        *)
(* userinfo and escapes play no part.                                      *)

Letters == {"a", "b", "c", "d", "e", "f", "g", "h", "i", "j", "k", "l", "m",
            "n", "o", "p", "q", "r", "s", "t", "u", "v", "w", "x", "y", "z"}

Digits == {"0", "1", "2", "3", "4", "5", "6", "7", "8", "9"}

\* url.getScheme: the position of the ':' ending a scheme, 0 when the string
\* has no scheme, and the error "missing protocol scheme" for a leading ':'
RECURSIVE SchemeScan(_, _)
SchemeScan(s, i) ==
    IF i > Len(s) THEN [err |-> FALSE, colon |-> 0]
    ELSE IF CharAt(s, i) \in Letters THEN SchemeScan(s, i + 1)
    ELSE IF CharAt(s, i) \in Digits \cup {"+", "-", "."}
         THEN IF i = 1 THEN [err |-> FALSE, colon |-> 0] ELSE SchemeScan(s, i + 1)
    ELSE IF CharAt(s, i) = ":"
         THEN IF i = 1 THEN [err |-> TRUE, colon |-> 0] ELSE [err |-> FALSE, colon |-> i]
    ELSE [err |-> FALSE, colon |-> 0]

\* url.validOptionalPort: "" or ':' followed by digits only
validOptionalPort(port) ==
    \/ port = ""
    \/ /\ CharAt(port, 1) = ":"
       /\ \A i \in 2..Len(port) : CharAt(port, i) \in Digits

\* url.parseHost: whether the authority is accepted as a host
parseHostOk(host) ==
    /\ IF HasPrefix(host, "[")
       THEN /\ LastIndex(host, "]") # 0
            /\ validOptionalPort(From(host, LastIndex(host, "]") + 1))
       ELSE LastIndex(host, ":") # 0 => validOptionalPort(From(host, LastIndex(host, ":")))
    /\ ~Contains(host, " ")

\* url.parse(rawURL, viaRequest): the error flag and the Scheme and Host fields
parse(rawURL, viaRequest) ==
    LET sc     == SchemeScan(rawURL, 1)
        scheme == IF sc.colon = 0 THEN "" ELSE SubSeq(rawURL, 1, sc.colon - 1)
        rest   == IF sc.colon = 0 THEN rawURL ELSE From(rawURL, sc.colon + 1)
        bad    == [err |-> TRUE, Scheme |-> "", Host |-> ""]
        auth   == LET a == From(rest, 3)
                  IN  IF Index(a, "/") = 0 THEN a ELSE SubSeq(a, 1, Index(a, "/") - 1)
    IN  IF rawURL = "" /\ viaRequest THEN bad
        ELSE IF sc.err THEN bad
        ELSE IF ~HasPrefix(rest, "/") /\ scheme # ""
             THEN [err |-> FALSE, Scheme |-> scheme, Host |-> ""]
        ELSE IF ~HasPrefix(rest, "/") /\ viaRequest THEN bad
        ELSE IF ~HasPrefix(rest, "/") /\ Contains(SplitPart0(rest, "/"), ":") THEN bad
        ELSE IF (scheme # "" \/ (~viaRequest /\ ~HasPrefix(rest, "///"))) /\ HasPrefix(rest, "//")
             THEN IF parseHostOk(auth)
                  THEN [err |-> FALSE, Scheme |-> scheme, Host |-> auth]
                  ELSE bad
        ELSE [err |-> FALSE, Scheme |-> scheme, Host |-> ""]

\* url.Parse
Parse(rawURL) == parse(rawURL, FALSE)

\* url.ParseRequestURI
ParseRequestURI(rawURL) == parse(rawURL, TRUE)

-----------------------------------------------------------------------------
(* The inputs of a run: the parsed flags (main.go 79-99) and the answers   *)
(* of the environment (the filesystem, the spec loader).                   *)

\* values of --specUrl
SpecUrls == {"", "http://api/s.json", "https://api.example.com/swagger.json",
             "http://api:x/s.json", "file:///tmp/spec.json", "not-a-scheme://x"}

\* values of --baseUrl
BaseUrls == {"", "https://api", "api"}

\* values of --sseAddr
SseAddrs == {"", ":9000", "h:9000", "127.0.0.1:8080", "h"}

\* values of --sseUrl
SseUrls == {"", "http://h", "https://example.com", "ftp://h", "http://h:9000",
            "https://example.com:8443", "ftp://h:9000", "http://[::1]:9000",
            "http://h:x"}

\* values of --httpAddr
HttpAddrs == {"", ":9000", "0.0.0.0:8080", "h"}

\* values of --httpPath
HttpPaths == {"", "/api"}

\* what os.Stat answers for the file of a file:// source: no error, an error
\* that os.IsNotExist recognises, or any other error (EACCES, ENOTDIR, ...)
StatOutcomes == {"exists", "notExist", "otherError"}

\* the set of flag valuations of the model
Flags == [specUrl : SpecUrls, baseUrl : BaseUrls, sseMode : BOOLEAN, httpMode : BOOLEAN,
          sseAddr : SseAddrs, sseUrl : SseUrls, httpAddr : HttpAddrs, httpPath : HttpPaths]

VARIABLES
    flags,          \* the parsed command line, fixed for the run
    pc,             \* the position of main
    fatal,          \* the log.Fatal that ended the run, "none" otherwise
    statResult,     \* what os.Stat answered, "unasked" before
    loadResult,     \* what swagger.LoadSwagger returned, "uncalled" before
    finalSseUrl, finalSseAddr, finalHttpPath, finalHttpAddr,   \* main.go 77-78
    config,         \* models.Config; the zero value until main.go 145
    trace           \* the stages and collaborator calls executed so far, in order

vars == <<flags, pc, fatal, statResult, loadResult, finalSseUrl, finalSseAddr,
          finalHttpPath, finalHttpAddr, config, trace>>

\* the zero value of models.Config (the pass-through fields, which main only
\* copies from the flags, are left out)
ZeroConfig ==
    [SpecUrl |-> "",
     SseCfg  |-> [SseMode |-> FALSE, SseAddr |-> "", SseUrl |-> ""],
     HttpCfg |-> [HttpMode |-> FALSE, HttpAddr |-> "", HttpPath |-> ""],
     ApiCfg  |-> [BaseUrl |-> ""]]

-----------------------------------------------------------------------------
(* The resolvers *)

\* getHttpAddr (main.go 16-29): the log.Fatal it ends in, or the address
getHttpAddr(httpAddr) ==
    IF httpAddr = "" THEN [fatal |-> "none", addr |-> "localhost:8080"]
    ELSE IF HasPrefix(httpAddr, ":")
         THEN [fatal |-> "none", addr |-> "http://localhost" \o httpAddr]
    ELSE IF ~Contains(httpAddr, ":")
         THEN [fatal |-> "InvalidAddressFormat", addr |-> ""]
    ELSE [fatal |-> "none", addr |-> httpAddr]

\* the url branch of getSseUrlAddr (main.go 47-69)
sseFromUrl(sseUrl) ==
    LET u     == Parse(sseUrl)
        split == Contains(u.Host, ":")
        host  == IF split THEN SplitPart0(u.Host, ":") ELSE u.Host
        port  == IF split THEN SplitPart1(u.Host, ":") ELSE ""
    IN  IF u.err THEN [fatal |-> "InvalidSseUrl", url |-> "", addr |-> ""]
        ELSE IF port # "" THEN [fatal |-> "none", url |-> sseUrl, addr |-> host \o ":" \o port]
        ELSE IF u.Scheme = "http"
             THEN [fatal |-> "none", url |-> sseUrl, addr |-> host \o ":" \o "80"]
        ELSE IF u.Scheme = "https"
             THEN [fatal |-> "none", url |-> sseUrl, addr |-> host \o ":" \o "443"]
        ELSE [fatal |-> "UnsupportedScheme", url |-> "", addr |-> ""]

\* getSseUrlAddr without its first test (main.go 33-35 left out)
getSseUrlAddrNoDefault(sseUrl, sseAddr) ==
    IF sseAddr # ""
    THEN IF HasPrefix(sseAddr, ":")
         THEN [fatal |-> "none", url |-> "http://localhost" \o sseAddr, addr |-> sseAddr]
         ELSE IF ~Contains(sseAddr, ":")
              THEN [fatal |-> "InvalidAddressFormat", url |-> "", addr |-> ""]
              ELSE [fatal |-> "none", url |-> "http://" \o sseAddr, addr |-> sseAddr]
    ELSE IF sseUrl # "" THEN sseFromUrl(sseUrl)
    ELSE [fatal |-> "MissingAddress", url |-> "", addr |-> ""]

\* getSseUrlAddr (main.go 31-74): the log.Fatal it ends in, or the pair
getSseUrlAddr(sseUrl, sseAddr) ==
    IF sseAddr = "" /\ sseUrl = ""
    THEN [fatal |-> "none", url |-> "http://localhost:8080", addr |-> "localhost:8080"]
    ELSE IF sseAddr # ""
         THEN IF HasPrefix(sseAddr, ":")
              THEN [fatal |-> "none", url |-> "http://localhost" \o sseAddr, addr |-> sseAddr]
              ELSE IF ~Contains(sseAddr, ":")
                   THEN [fatal |-> "InvalidAddressFormat", url |-> "", addr |-> ""]
                   ELSE [fatal |-> "none", url |-> "http://" \o sseAddr, addr |-> sseAddr]
    ELSE IF sseUrl # "" THEN sseFromUrl(sseUrl)
    ELSE [fatal |-> "MissingAddress", url |-> "", addr |-> ""]

-----------------------------------------------------------------------------
(* main, one action per stage *)

Init ==
    /\ flags \in Flags
    /\ pc = "specEmpty"
    /\ fatal = "none"
    /\ statResult = "unasked"
    /\ loadResult = "uncalled"
    /\ finalSseUrl = ""
    /\ finalSseAddr = ""
    /\ finalHttpPath = ""
    /\ finalHttpAddr = ""
    /\ config = ZeroConfig
    /\ trace = <<>>

\* log.Fatal: the process exits at once
Die(stage, error) ==
    /\ pc' = "exit"
    /\ fatal' = error
    /\ trace' = Append(trace, stage)

\* the stage passed: main goes on
Pass(stage, next) ==
    /\ pc' = next
    /\ fatal' = fatal
    /\ trace' = Append(trace, stage)

\* main.go 102-104 with the test for the empty string left out
ValidateSpecEmptyUnchecked ==
    /\ pc = "specEmpty"
    /\ Pass("specEmpty", "specSource")
    /\ UNCHANGED <<flags, statResult, loadResult, finalSseUrl, finalSseAddr,
                   finalHttpPath, finalHttpAddr, config>>

\* main.go 102-104
ValidateSpecEmpty ==
    /\ pc = "specEmpty"
    /\ IF flags.specUrl = ""
       THEN Die("specEmpty", "MissingSpecSource")
       ELSE Pass("specEmpty", "specSource")
    /\ UNCHANGED <<flags, statResult, loadResult, finalSseUrl, finalSseAddr,
                   finalHttpPath, finalHttpAddr, config>>

\* main.go 106-110: a remote source
ValidateSpecRemote ==
    /\ pc = "specSource"
    /\ HasPrefix(flags.specUrl, "http://") \/ HasPrefix(flags.specUrl, "https://")
    /\ IF ParseRequestURI(flags.specUrl).err
       THEN Die("specSource", "InvalidSpecUrl")
       ELSE Pass("specSource", "baseUrl")
    /\ UNCHANGED <<flags, statResult, loadResult, finalSseUrl, finalSseAddr,
                   finalHttpPath, finalHttpAddr, config>>

\* main.go 111-115: a local source; only an os.IsNotExist error is fatal
ValidateSpecFile ==
    /\ pc = "specSource"
    /\ ~(HasPrefix(flags.specUrl, "http://") \/ HasPrefix(flags.specUrl, "https://"))
    /\ HasPrefix(flags.specUrl, "file://")
    /\ \E r \in StatOutcomes :
        /\ statResult' = r
        /\ IF r = "notExist"
           THEN Die("specSource", "SpecFileNotFound")
           ELSE Pass("specSource", "baseUrl")
    /\ UNCHANGED <<flags, loadResult, finalSseUrl, finalSseAddr,
                   finalHttpPath, finalHttpAddr, config>>

\* main.go 116-118: any other source
ValidateSpecOther ==
    /\ pc = "specSource"
    /\ ~(HasPrefix(flags.specUrl, "http://") \/ HasPrefix(flags.specUrl, "https://"))
    /\ ~HasPrefix(flags.specUrl, "file://")
    /\ Die("specSource", "UnrecognizedSpecSourceScheme")
    /\ UNCHANGED <<flags, statResult, loadResult, finalSseUrl, finalSseAddr,
                   finalHttpPath, finalHttpAddr, config>>

\* main.go 121-125
ValidateBaseUrl ==
    /\ pc = "baseUrl"
    /\ IF /\ flags.baseUrl # ""
          /\ ~HasPrefix(flags.baseUrl, "http://")
          /\ ~HasPrefix(flags.baseUrl, "https://")
       THEN Die("baseUrl", "InvalidBaseUrl")
       ELSE Pass("baseUrl", "modes")
    /\ UNCHANGED <<flags, statResult, loadResult, finalSseUrl, finalSseAddr,
                   finalHttpPath, finalHttpAddr, config>>

\* main.go 126-128 with || written for &&
CheckModesEither ==
    /\ pc = "modes"
    /\ IF flags.sseMode \/ flags.httpMode
       THEN Die("modes", "ConflictingTransportModes")
       ELSE Pass("modes", "sse")
    /\ UNCHANGED <<flags, statResult, loadResult, finalSseUrl, finalSseAddr,
                   finalHttpPath, finalHttpAddr, config>>

\* main.go 126-128
CheckModes ==
    /\ pc = "modes"
    /\ IF flags.sseMode /\ flags.httpMode
       THEN Die("modes", "ConflictingTransportModes")
       ELSE Pass("modes", "sse")
    /\ UNCHANGED <<flags, statResult, loadResult, finalSseUrl, finalSseAddr,
                   finalHttpPath, finalHttpAddr, config>>

\* main.go 130-132
ResolveSse ==
    /\ pc = "sse"
    /\ IF flags.sseMode
       THEN LET r == getSseUrlAddr(flags.sseUrl, flags.sseAddr)
            IN  IF r.fatal # "none"
                THEN /\ Die("sse", r.fatal)
                     /\ UNCHANGED <<finalSseUrl, finalSseAddr>>
                ELSE /\ Pass("sse", "http")
                     /\ finalSseUrl' = r.url
                     /\ finalSseAddr' = r.addr
       ELSE /\ pc' = "http"
            /\ UNCHANGED <<fatal, trace, finalSseUrl, finalSseAddr>>
    /\ UNCHANGED <<flags, statResult, loadResult, finalHttpPath, finalHttpAddr, config>>

\* main.go 133-138
ResolveHttp ==
    /\ pc = "http"
    /\ IF flags.httpMode
       THEN LET r == getHttpAddr(flags.httpAddr)
            IN  IF r.fatal # "none"
                THEN /\ Die("http", r.fatal)
                     /\ UNCHANGED <<finalHttpPath, finalHttpAddr>>
                ELSE /\ Pass("http", "load")
                     /\ finalHttpPath' = IF flags.httpPath = "" THEN "/mcp" ELSE finalHttpPath
                     /\ finalHttpAddr' = r.addr
       ELSE /\ pc' = "load"
            /\ UNCHANGED <<fatal, trace, finalHttpPath, finalHttpAddr>>
    /\ UNCHANGED <<flags, statResult, loadResult, finalSseUrl, finalSseAddr, config>>

\* main.go 139-142 with the loader's error ignored
LoadSwaggerErrIgnored ==
    /\ pc = "load"
    /\ \E r \in {"ok", "error"} :
        /\ loadResult' = r
        /\ Pass("LoadSwagger", "extract")
    /\ UNCHANGED <<flags, statResult, finalSseUrl, finalSseAddr,
                   finalHttpPath, finalHttpAddr, config>>

\* main.go 139-142: the loader is an external collaborator; it returns a
\* specification or an error
LoadSwagger ==
    /\ pc = "load"
    /\ \E r \in {"ok", "error"} :
        /\ loadResult' = r
        /\ IF r = "error"
           THEN Die("LoadSwagger", "LoadFailed")
           ELSE Pass("LoadSwagger", "extract")
    /\ UNCHANGED <<flags, statResult, finalSseUrl, finalSseAddr,
                   finalHttpPath, finalHttpAddr, config>>

\* main.go 143
ExtractSwagger ==
    /\ pc = "extract"
    /\ Pass("ExtractSwagger", "config")
    /\ UNCHANGED <<flags, statResult, loadResult, finalSseUrl, finalSseAddr,
                   finalHttpPath, finalHttpAddr, config>>

\* main.go 145-171
AssembleConfig ==
    /\ pc = "config"
    /\ config' = [SpecUrl |-> flags.specUrl,
                  SseCfg  |-> [SseMode |-> flags.sseMode, SseAddr |-> finalSseAddr,
                               SseUrl |-> finalSseUrl],
                  HttpCfg |-> [HttpMode |-> flags.httpMode, HttpAddr |-> finalHttpAddr,
                               HttpPath |-> finalHttpPath],
                  ApiCfg  |-> [BaseUrl |-> flags.baseUrl]]
    /\ Pass("config", "serve")
    /\ UNCHANGED <<flags, statResult, loadResult, finalSseUrl, finalSseAddr,
                   finalHttpPath, finalHttpAddr>>

\* main.go 173-184: the banner is printed and the server is created
CreateServer ==
    /\ pc = "serve"
    /\ Pass("CreateServer", "done")
    /\ UNCHANGED <<flags, statResult, loadResult, finalSseUrl, finalSseAddr,
                   finalHttpPath, finalHttpAddr, config>>

Next ==
    \/ ValidateSpecEmpty
    \/ ValidateSpecRemote
    \/ ValidateSpecFile
    \/ ValidateSpecOther
    \/ ValidateBaseUrl
    \/ CheckModes
    \/ ResolveSse
    \/ ResolveHttp
    \/ LoadSwagger
    \/ ExtractSwagger
    \/ AssembleConfig
    \/ CreateServer

Spec == Init /\ [][Next]_vars

-----------------------------------------------------------------------------
(* Vocabulary of the properties *)

\* stage (or collaborator call) st has been executed
Ran(st) == \E i \in 1..Len(trace) : trace[i] = st

\* the Config has been assembled
Assembled == pc \in {"serve", "done"}

\* the run is over: log.Fatal, or the server was created
Terminated == pc \in {"exit", "done"}

IsRemote == HasPrefix(flags.specUrl, "http://") \/ HasPrefix(flags.specUrl, "https://")

IsLocal == ~IsRemote /\ HasPrefix(flags.specUrl, "file://")

\* what each validation stage rejects, read off the flags and the filesystem
SpecEmptyBad == flags.specUrl = ""

SpecSourceBad ==
    \/ IsRemote /\ ParseRequestURI(flags.specUrl).err
    \/ IsLocal /\ statResult = "notExist"
    \/ ~IsRemote /\ ~IsLocal

BaseUrlBad ==
    /\ flags.baseUrl # ""
    /\ ~HasPrefix(flags.baseUrl, "http://")
    /\ ~HasPrefix(flags.baseUrl, "https://")

ModesBad == flags.sseMode /\ flags.httpMode

AddressBad ==
    \/ flags.sseMode /\ getSseUrlAddr(flags.sseUrl, flags.sseAddr).fatal # "none"
    \/ flags.httpMode /\ getHttpAddr(flags.httpAddr).fatal # "none"

SpecSourceErrors == {"InvalidSpecUrl", "SpecFileNotFound", "UnrecognizedSpecSourceScheme"}

AddressErrors == {"InvalidAddressFormat", "InvalidSseUrl", "UnsupportedScheme", "MissingAddress"}

ValidationErrors ==
    {"MissingSpecSource", "InvalidBaseUrl", "ConflictingTransportModes"}
        \cup SpecSourceErrors \cup AddressErrors

Collaborators == {"LoadSwagger", "ExtractSwagger", "CreateServer"}

\* the order of the stages in main
StageOrder == <<"specEmpty", "specSource", "baseUrl", "modes", "sse", "http",
                "LoadSwagger", "ExtractSwagger", "config", "CreateServer">>

StagePos(st) == CHOOSE i \in 1..Len(StageOrder) : StageOrder[i] = st

\* the stage a fatal error belongs to
StagesOf(error) ==
    IF error = "MissingSpecSource" THEN {"specEmpty"}
    ELSE IF error \in SpecSourceErrors THEN {"specSource"}
    ELSE IF error = "InvalidBaseUrl" THEN {"baseUrl"}
    ELSE IF error = "ConflictingTransportModes" THEN {"modes"}
    ELSE IF error \in AddressErrors THEN {"sse", "http"}
    ELSE {"LoadSwagger"}

\* a URL's host without its port, and its port (the explicit one, else the
\* scheme's default), as RFC 3986 reads an authority
AuthPortAt(host) ==
    IF HasPrefix(host, "[") THEN LastIndex(host, "]") + 1
    ELSE IF LastIndex(host, ":") = 0 THEN Len(host) + 1 ELSE LastIndex(host, ":")

UrlHostname(u) == SubSeq(u.Host, 1, AuthPortAt(u.Host) - 1)

UrlExplicitPort(u) == From(u.Host, AuthPortAt(u.Host) + 1)

UrlPort(u) ==
    IF UrlExplicitPort(u) # "" THEN UrlExplicitPort(u)
    ELSE IF u.Scheme = "http" THEN "80"
    ELSE IF u.Scheme = "https" THEN "443"
    ELSE ""

\* the URL and the listen address name the same host:port; a listen address
\* with no host (":PORT", every interface) is taken to agree with localhost
SameHostPort(rawUrl, addr) ==
    LET u == Parse(rawUrl)
    IN  /\ ~u.err
        /\ addr = UrlHostname(u) \o ":" \o UrlPort(u)
           \/ /\ UrlHostname(u) = "localhost"
              /\ addr = ":" \o UrlPort(u)

-----------------------------------------------------------------------------
(* The properties *)

\* C1: once the spec source and baseUrl have passed, the run ends with
\* ConflictingTransportModes exactly when --sse and --http are both true, and
\* no assembled Config has both SseMode and HttpMode true.
C1_ConflictIffBothModes ==
    /\ Ran("modes") =>
         ((fatal = "ConflictingTransportModes") <=> (flags.sseMode /\ flags.httpMode))
    /\ fatal = "ConflictingTransportModes" => Ran("modes") /\ pc = "exit"
    /\ Assembled => ~(config.SseCfg.SseMode /\ config.HttpCfg.HttpMode)

C1_Witness ==
    /\ pc = "exit"
    /\ fatal = "ConflictingTransportModes"
    /\ flags.sseMode /\ flags.httpMode

\* C2 (as claimed): in streamable-HTTP mode with --httpAddr of the form ':PORT'
\* and no --httpPath, the Config has HTTP enabled, SSE disabled, mount path
\* '/mcp' and the raw ':PORT' string as its listen address.
C2_HttpListenAddrIsRawInput ==
    (/\ Assembled
     /\ flags.httpMode /\ ~flags.sseMode
     /\ HasPrefix(flags.httpAddr, ":")
     /\ flags.httpPath = "")
    => /\ config.HttpCfg = [HttpMode |-> TRUE, HttpAddr |-> flags.httpAddr, HttpPath |-> "/mcp"]
       /\ ~config.SseCfg.SseMode

\* C3 (as claimed): in every assembled Config with SSE enabled, SseUrl and
\* SseAddr are non-empty and name the same host:port.
C3_SsePairConsistent ==
    (Assembled /\ config.SseCfg.SseMode)
    => /\ config.SseCfg.SseUrl # ""
       /\ config.SseCfg.SseAddr # ""
       /\ SameHostPort(config.SseCfg.SseUrl, config.SseCfg.SseAddr)

\* C4 (as claimed): with no listen address and a dialable URL with an explicit
\* scheme, the resolver returns (URL, host:80) for http without a port,
\* (URL, host:443) for https without a port, ends with UnsupportedScheme for
\* another scheme without a port, and returns (URL, host:port) whatever the
\* scheme when the URL has a port.
C4_PortInferredFromScheme ==
    LET u == Parse(flags.sseUrl)
    IN  (/\ Ran("sse")
         /\ flags.sseMode
         /\ flags.sseAddr = "" /\ flags.sseUrl # ""
         /\ ~u.err /\ u.Scheme # "")
        => IF UrlExplicitPort(u) # ""
           THEN /\ fatal # "UnsupportedScheme"
                /\ finalSseUrl = flags.sseUrl
                /\ finalSseAddr = UrlHostname(u) \o ":" \o UrlExplicitPort(u)
           ELSE IF u.Scheme = "http"
                THEN finalSseUrl = flags.sseUrl /\ finalSseAddr = UrlHostname(u) \o ":80"
           ELSE IF u.Scheme = "https"
                THEN finalSseUrl = flags.sseUrl /\ finalSseAddr = UrlHostname(u) \o ":443"
           ELSE /\ fatal = "UnsupportedScheme" /\ pc = "exit"
                /\ finalSseUrl = "" /\ finalSseAddr = ""

\* C5: the stages run in the fixed order spec source (empty test, then
\* classification and check), baseUrl, mode conflict, address resolution;
\* nothing runs after a failing stage; a finished run reports the error of the
\* earliest failing stage; an empty --specUrl ends the run with
\* MissingSpecSource after the first test alone, whatever the other flags.
C5_FailFastOrder ==
    /\ \A i, j \in 1..Len(trace) : i < j => StagePos(trace[i]) < StagePos(trace[j])
    /\ \A i \in 1..Len(trace) : i <= 4 => trace[i] = StageOrder[i]
    /\ fatal # "none" => pc = "exit" /\ trace[Len(trace)] \in StagesOf(fatal)
    /\ (flags.specUrl = "" /\ pc # "specEmpty")
         => fatal = "MissingSpecSource" /\ trace = <<"specEmpty">>
    /\ Terminated =>
         IF SpecEmptyBad THEN fatal = "MissingSpecSource"
         ELSE IF SpecSourceBad THEN fatal \in SpecSourceErrors
         ELSE IF BaseUrlBad THEN fatal = "InvalidBaseUrl"
         ELSE IF ModesBad THEN fatal = "ConflictingTransportModes"
         ELSE IF AddressBad THEN fatal \in AddressErrors
         ELSE fatal \notin ValidationErrors

C5_Witness ==
    /\ pc = "exit"
    /\ flags.specUrl = "" /\ BaseUrlBad /\ ModesBad
    /\ flags.sseAddr = "h" /\ flags.httpAddr = "h"
    /\ fatal = "MissingSpecSource"

\* C6: no collaborator (LoadSwagger, ExtractSwagger, CreateServer) is called
\* before every validation and the address resolution have passed; a run that
\* a validation ended has called none of them; CreateServer is never called
\* when the loader returned an error.
C6_NoCollaboratorBeforeValidation ==
    /\ (\E c \in Collaborators : Ran(c)) =>
         /\ Ran("specEmpty") /\ Ran("specSource") /\ Ran("baseUrl") /\ Ran("modes")
         /\ flags.sseMode => Ran("sse")
         /\ flags.httpMode => Ran("http")
         /\ ~SpecEmptyBad /\ ~SpecSourceBad /\ ~BaseUrlBad /\ ~ModesBad /\ ~AddressBad
         /\ trace[Len(trace)] \in Collaborators \cup {"config"}
    /\ fatal \in ValidationErrors => \A c \in Collaborators : ~Ran(c)
    /\ loadResult = "error" => ~Ran("ExtractSwagger") /\ ~Ran("CreateServer")
    /\ Ran("CreateServer") => loadResult = "ok" /\ Ran("LoadSwagger") /\ Ran("ExtractSwagger")

C6_Witness ==
    /\ pc = "exit"
    /\ fatal = "InvalidAddressFormat"
    /\ flags.httpMode /\ ~flags.sseMode
    /\ trace = <<"specEmpty", "specSource", "baseUrl", "modes", "http">>
    /\ loadResult = "uncalled"

\* C7 (as claimed): a Config is assembled only for a non-empty spec source
\* that is a remote one parsing as a request URI or a local one whose path
\* exists; for a file:// source every outcome of the filesystem check other
\* than 'exists' ends the run with SpecFileNotFound; any other prefix ends it
\* with UnrecognizedSpecSourceScheme.
C7_SpecSourceValidated ==
    /\ Assembled =>
         /\ flags.specUrl # ""
         /\ \/ IsRemote /\ ~ParseRequestURI(flags.specUrl).err
            \/ IsLocal /\ statResult = "exists"
    /\ (IsLocal /\ statResult \in {"notExist", "otherError"}) => fatal = "SpecFileNotFound"
    /\ (Ran("specSource") /\ ~IsRemote /\ ~IsLocal) => fatal = "UnrecognizedSpecSourceScheme"

\* C8 (as claimed): in every assembled Config with streamable-HTTP enabled the
\* listen address is non-empty and the mount path is '/mcp' when --httpPath is
\* not supplied and the supplied --httpPath otherwise.
C8_HttpPathCarried ==
    (Assembled /\ config.HttpCfg.HttpMode)
    => /\ config.HttpCfg.HttpAddr # ""
       /\ config.HttpCfg.HttpPath # ""
       /\ config.HttpCfg.HttpPath = IF flags.httpPath = "" THEN "/mcp" ELSE flags.httpPath

\* C9 (as claimed): when --sseUrl and --sseAddr are both given and --sseAddr
\* is well-formed, getSseUrlAddr returns exactly (sseUrl, sseAddr).
C9_BothGivenUsedAsIs ==
    (/\ Ran("sse")
     /\ flags.sseMode
     /\ flags.sseUrl # "" /\ flags.sseAddr # ""
     /\ Contains(flags.sseAddr, ":"))
    => finalSseUrl = flags.sseUrl /\ finalSseAddr = flags.sseAddr

====
